---- MODULE Spec2Model ----
\* A model of the asynchronous frame loader (ThreadFrameLoader) of
\* src/frame_loader.cpp: one worker thread (loader_thread) and one calling
\* thread (set_request, loaded, the destructor), the loader mutex, the wakeup
\* signal and the media decoders the worker drives.
\*
\* Time is a grid of unit cells: the cell t stands for the half-open range
\* [t, t+1). An IntervalSet is the set of the cells it covers, and its stored
\* intervals are the maximal runs of that set.
EXTENDS Integers, Sequences, FiniteSets, TLC

\* ------------------------------------------------------------------ bounds

\* The time axis is 0 .. MaxTime; requests are sets of cells below MaxTime.
MaxTime == 3

\* How many set_request calls the calling thread makes.
MaxRequests == 3

\* How many opener, seek_before, next_frame and load_image calls in total fail.
MaxFailures == 1

\* How many set_request calls are made in the runs checked for liveness.
MaxLiveRequests == 2

Cells == 0 .. (MaxTime - 1)

\* ------------------------------------------------------------ media streams

\* The frames a decoder yields, in decoding order; a frame's end is the next
\* frame's begin. StreamA is one frame two cells long, StreamB has its first
\* frame after time 0, StreamC is two frames of one cell; these end at 2, so
\* the cells from 2 on lie past their end. StreamD has its only frame at 2,
\* more than a cell after time 0.
StreamA == << [begin |-> 0, end |-> 2] >>

StreamB == << [begin |-> 1, end |-> 2] >>

StreamC == << [begin |-> 0, end |-> 1], [begin |-> 1, end |-> 2] >>

StreamD == << [begin |-> 2, end |-> 3] >>

Streams == {StreamA, StreamB, StreamC, StreamD}

\* --------------------------------------------------- interval-set algebra

\* The cells an interval [begin, end) covers.
CellsOf(iv) == iv.begin .. (iv.end - 1)

Begins(S) == {t \in S : (t - 1) \notin S}

RunEnd(S, t) == CHOOSE e \in (t + 1) .. (MaxTime + 2) :
                    /\ \A c \in t .. (e - 1) : c \in S
                    /\ e \notin S

Min(S) == CHOOSE x \in S : \A y \in S : x <= y

RECURSIVE RunsFrom(_, _)
RunsFrom(S, B) ==
    IF B = {} THEN << >>
    ELSE LET b == Min(B)
         IN  << [begin |-> b, end |-> RunEnd(S, b)] >> \o RunsFrom(S, B \ {b})

\* The stored intervals of an interval set, in ascending order.
IntervalSeq(S) == RunsFrom(S, Begins(S))

\* IntervalSet::overlap_begin(t): the position of the first stored interval
\* that ends after t (Len + 1 stands for end()).
OverlapBegin(S, t) ==
    LET ivs == IntervalSeq(S)
        hit == {i \in 1 .. Len(ivs) : ivs[i].end > t}
    IN  IF hit = {} THEN Len(ivs) + 1 ELSE Min(hit)

\* IntervalSet::overlap_end(t): the position of the first stored interval
\* that begins at or after t (Len + 1 stands for end()).
OverlapEnd(S, t) ==
    LET ivs == IntervalSeq(S)
        hit == {i \in 1 .. Len(ivs) : ivs[i].begin >= t}
    IN  IF hit = {} THEN Len(ivs) + 1 ELSE Min(hit)

\* IntervalSet::erase({t, forever}).
EraseFrom(S, t) == {c \in S : c < t}

\* ------------------------------------------------------------------- state

VARIABLES
    stream,         \* the media file's frames (fixed for a run)
    wanted,         \* this->wanted
    notify,         \* this->notify is a signal (TRUE) or null (FALSE)
    notified,       \* the state of the caller's notify signal
    done,           \* load.done
    frames,         \* load.frames: key -> "img" or "null" (an empty handle)
    eof,            \* load.eof: {} when unknown, else {t}
    shutdown,       \* this->shutdown
    mutex,          \* who holds the loader mutex: "free" or "worker"
    wakeup,         \* the state of the wakeup signal
    pc,             \* where the worker thread is
    decoders,       \* the worker's pool: records [pos, at], pos the map key
    keep_decoders,  \* the pool being built for the next pass
    needed,         \* the needed intervals of this pass not yet handled
    changes,        \* the pass's change count
    decoder,        \* the decoder in use, with decoder_pos as its pos
    frame,          \* the decode step's frame: {} or {frame}
    image,          \* whether load_image returned a handle
    cpc,            \* where the calling thread is
    req,            \* the argument of the latest set_request
    nreq,           \* set_request calls made
    nfail,          \* failures injected
    stale,          \* wanted was changed and no pass has started since
    rec             \* what the pass has written at its ++changes sites

vars == << stream, wanted, notify, notified, done, frames, eof, shutdown,
           mutex, wakeup, pc, decoders, keep_decoders, needed, changes,
           decoder, frame, image, cpc, req, nreq, nfail, stale, rec >>

loadVars == << done, frames, eof >>

workerVars == << pc, decoders, keep_decoders, needed, changes, decoder,
                 frame, image, rec >>

\* No write yet: int changes = 0.
NoRec == [frames |-> {}, done |-> {}, eof |-> {}]

callerVars == << cpc, req, nreq >>

Init ==
    /\ stream \in Streams
    /\ wanted = {}
    /\ notify = FALSE
    /\ notified = FALSE
    /\ done = {}
    /\ frames = << >>
    /\ eof = {}
    /\ shutdown = FALSE
    /\ mutex = "free"
    /\ wakeup = FALSE
    /\ pc = "lock"
    /\ decoders = {}
    /\ keep_decoders = {}
    /\ needed = << >>
    /\ changes = 0
    /\ decoder = {}
    /\ frame = {}
    /\ image = FALSE
    /\ cpc = "idle"
    /\ req = {}
    /\ nreq = 0
    /\ nfail = 0
    /\ stale = FALSE
    /\ rec = NoRec

\* ------------------------------------------------------------- set_request

\* A set_request that computes nothing to erase.
ToEraseNothing(dn, w) == {}

\* to_erase = load.done minus the new wanted.
ToErase(dn, w) == dn \ w

\* load.done.erase(erase), for every interval of to_erase.
EraseDone(dn, er) == dn \ er

\* A set_request that erases from load.done only and keeps every frame.
EraseFramesNone(fr, er) == fr

\* load.frames.erase(lower_bound(erase.begin), lower_bound(erase.end)), for
\* every interval of to_erase: the keys inside to_erase go.
EraseFrames(fr, er) ==
    [k \in {x \in DOMAIN fr : x \notin er} |-> fr[k]]

\* wanted == this->wanted
SameRequest(w, cur) == w = cur

\* set_request up to lock.unlock(): the critical section.
SetRequest(w, n) ==
    /\ cpc = "idle"
    /\ nreq < MaxRequests
    /\ mutex = "free"
    /\ notify' = n
    /\ req' = w
    /\ nreq' = nreq + 1
    /\ IF SameRequest(w, wanted)
       THEN UNCHANGED << wanted, done, frames, cpc, stale >>
       ELSE /\ done' = EraseDone(done, ToErase(done, w))
            /\ frames' = EraseFrames(frames, ToErase(done, w))
            /\ wanted' = w
            /\ cpc' = "wake"
            /\ stale' = TRUE
    /\ UNCHANGED << stream, notified, eof, shutdown, mutex, wakeup, nfail >>
    /\ UNCHANGED workerVars

\* ThreadSignal::set on the wakeup signal.
SignalSet(sig) == TRUE

\* A set_request that returns without setting the wakeup signal.
SetRequestNoWake ==
    /\ cpc = "wake"
    /\ cpc' = "idle"
    /\ UNCHANGED << stream, wanted, notify, notified, shutdown, mutex, wakeup,
                    req, nreq, nfail, stale >>
    /\ UNCHANGED << done, frames, eof >>
    /\ UNCHANGED << pc, decoders, keep_decoders, needed, changes, decoder,
                    frame, image, rec >>

\* set_request after the unlock: wakeup->set(), then the call returns.
SetRequestWake ==
    /\ cpc = "wake"
    /\ wakeup' = SignalSet(wakeup)
    /\ cpc' = "idle"
    /\ UNCHANGED << stream, wanted, notify, notified, shutdown, mutex, req,
                    nreq, nfail, stale >>
    /\ UNCHANGED loadVars
    /\ UNCHANGED workerVars

\* The caller consumes its notify signal (ThreadSignal::wait on notify).
NotifyWait ==
    /\ cpc = "idle"
    /\ notified
    /\ notified' = FALSE
    /\ UNCHANGED << stream, wanted, notify, shutdown, mutex, wakeup, nfail,
                    stale >>
    /\ UNCHANGED loadVars
    /\ UNCHANGED workerVars
    /\ UNCHANGED callerVars

\* ------------------------------------------------------------- destructor

\* ~ThreadFrameLoader up to lock.unlock(): shutdown = true.
Destroy ==
    /\ cpc = "idle"
    /\ mutex = "free"
    /\ shutdown' = TRUE
    /\ cpc' = "dwake"
    /\ UNCHANGED << stream, wanted, notify, notified, mutex, wakeup, req,
                    nreq, nfail, stale >>
    /\ UNCHANGED loadVars
    /\ UNCHANGED workerVars

\* A destructor that goes on to join without setting the wakeup signal.
DestroyNoWake ==
    /\ cpc = "dwake"
    /\ cpc' = "join"
    /\ UNCHANGED << stream, wanted, notify, notified, shutdown, mutex, wakeup,
                    req, nreq, nfail, stale >>
    /\ UNCHANGED loadVars
    /\ UNCHANGED workerVars

\* ~ThreadFrameLoader: wakeup->set().
DestroyWake ==
    /\ cpc = "dwake"
    /\ wakeup' = SignalSet(wakeup)
    /\ cpc' = "join"
    /\ UNCHANGED << stream, wanted, notify, notified, shutdown, mutex, req,
                    nreq, nfail, stale >>
    /\ UNCHANGED loadVars
    /\ UNCHANGED workerVars

\* ~ThreadFrameLoader: thread.join() returns once the worker has left.
DestroyJoin ==
    /\ cpc = "join"
    /\ pc = "exit"
    /\ cpc' = "dead"
    /\ UNCHANGED << stream, wanted, notify, notified, shutdown, mutex, wakeup,
                    req, nreq, nfail, stale >>
    /\ UNCHANGED loadVars
    /\ UNCHANGED workerVars

\* ------------------------------------------------------------ media decoder

\* MediaDecoder::seek_before(t): the next frame is the first one that ends
\* after t (it begins at or before t when the stream has such a frame, else
\* it is the earliest frame available); past the last frame when none does.
SeekBefore(st, t) ==
    LET hit == {i \in 1 .. Len(st) : st[i].end > t}
    IN  IF hit = {} THEN Len(st) + 1 ELSE Min(hit)

\* ----------------------------------------------------------- loader_thread

\* A pass head that keeps every decoder of the pool.
KeepAll(w, decs) == decs

\* The decoders that sit at the end of a wanted interval.
KeepEnd(w, decs) ==
    {d \in decs : \E i \in 1 .. Len(IntervalSeq(w)) : IntervalSeq(w)[i].end = d.pos}

\* needed = wanted minus [eof, forever) minus load.done.
NeededSet(w, e, dn) ==
    {c \in w : \A t \in e : c < t} \ dn

\* A selection that takes the first decoder of the pool whatever the need.
SelectSmallest(decs, t) == CHOOSE d \in decs : \A e \in decs : d.pos <= e.pos

\* A selection that takes the last decoder of the pool whatever the need.
SelectLargest(decs, t) == CHOOSE d \in decs : \A e \in decs : d.pos >= e.pos

\* decoders.upper_bound(need.begin), stepped back once unless at begin():
\* the last decoder at or before t, else the first one of the pool.
SelectDecoder(decs, t) ==
    LET atOrBefore == {d \in decs : d.pos <= t}
    IN  IF atOrBefore # {}
        THEN CHOOSE d \in atOrBefore : \A e \in atOrBefore : e.pos <= d.pos
        ELSE CHOOSE d \in decs : \A e \in decs : d.pos <= e.pos

\* keep_decoders.insert({decoder_pos, decoder}): std::map::insert keeps the
\* entry already stored under an equal key, and the new decoder is dropped.
InsertDecoder(kd, d) ==
    IF \E e \in kd : e.pos = d.pos THEN kd ELSE kd \cup {d}

\* std::thread start and lock.lock() after wakeup->wait(): take the mutex.
WorkerLock ==
    /\ pc = "lock"
    /\ mutex = "free"
    /\ mutex' = "worker"
    /\ pc' = "loop"
    /\ UNCHANGED << stream, wanted, notify, notified, shutdown, wakeup, nfail,
                    stale, decoders, keep_decoders, needed, changes, decoder,
                    frame, image >>
    /\ UNCHANGED loadVars
    /\ UNCHANGED << rec >>
    /\ UNCHANGED callerVars

\* while (!shutdown) is false: the thread ends, its lock and pool destroyed.
WorkerExit ==
    /\ pc = "loop"
    /\ shutdown
    /\ pc' = "exit"
    /\ mutex' = "free"
    /\ decoders' = {}
    /\ UNCHANGED << stream, wanted, notify, notified, shutdown, wakeup, nfail,
                    stale, keep_decoders, needed, changes, decoder, frame,
                    image >>
    /\ UNCHANGED loadVars
    /\ UNCHANGED << rec >>
    /\ UNCHANGED callerVars

\* The head of a pass with nothing needed: keep the end decoders, unlock, and
\* go to wait on the wakeup signal.
PassPark ==
    /\ pc = "loop"
    /\ ~shutdown
    /\ NeededSet(wanted, eof, done) = {}
    /\ decoders' = KeepEnd(wanted, decoders)
    /\ mutex' = "free"
    /\ pc' = "wait"
    /\ stale' = FALSE
    /\ UNCHANGED << stream, wanted, notify, notified, shutdown, wakeup, nfail,
                    keep_decoders, needed, changes, decoder, frame, image >>
    /\ UNCHANGED loadVars
    /\ UNCHANGED << rec >>
    /\ UNCHANGED callerVars

\* The head of a pass with work to do.
PassStart ==
    /\ pc = "loop"
    /\ ~shutdown
    /\ NeededSet(wanted, eof, done) # {}
    /\ keep_decoders' = KeepEnd(wanted, decoders)
    /\ decoders' = decoders \ KeepEnd(wanted, decoders)
    /\ needed' = IntervalSeq(NeededSet(wanted, eof, done))
    /\ changes' = 0
    /\ rec' = NoRec
    /\ pc' = "pick"
    /\ stale' = FALSE
    /\ UNCHANGED << stream, wanted, notify, notified, shutdown, mutex, wakeup,
                    nfail, decoder, frame, image >>
    /\ UNCHANGED loadVars
    /\ UNCHANGED callerVars

\* ThreadSignal::wait: returns once the signal is set, and clears it.
SignalWait(sig) == FALSE

\* wakeup->wait(), with the mutex released.
WorkerWait ==
    /\ pc = "wait"
    /\ wakeup
    /\ wakeup' = SignalWait(wakeup)
    /\ pc' = "lock"
    /\ UNCHANGED << stream, wanted, notify, notified, shutdown, mutex, nfail,
                    stale, decoders, keep_decoders, needed, changes, decoder,
                    frame, image >>
    /\ UNCHANGED loadVars
    /\ UNCHANGED << rec >>
    /\ UNCHANGED callerVars

\* A need served by a pooled decoder, the mutex kept across the decode step.
PickReuseLocked ==
    /\ pc = "pick"
    /\ needed # << >>
    /\ decoders # {}
    /\ LET d == SelectDecoder(decoders, Head(needed).begin)
       IN  /\ decoder' = {d}
           /\ decoders' = decoders \ {d}
    /\ pc' = "decode"
    /\ UNCHANGED << stream, wanted, notify, notified, shutdown, wakeup, nfail,
                    stale, keep_decoders, needed, changes, frame, image,
                    mutex, rec >>
    /\ UNCHANGED loadVars
    /\ UNCHANGED callerVars

\* A need served by a pooled decoder; then lock.unlock().
PickReuse ==
    /\ pc = "pick"
    /\ needed # << >>
    /\ decoders # {}
    /\ LET d == SelectDecoder(decoders, Head(needed).begin)
       IN  /\ decoder' = {d}
           /\ decoders' = decoders \ {d}
    /\ mutex' = "free"
    /\ pc' = "decode"
    /\ UNCHANGED << stream, wanted, notify, notified, shutdown, wakeup, nfail,
                    stale, keep_decoders, needed, changes, frame, image >>
    /\ UNCHANGED loadVars
    /\ UNCHANGED << rec >>
    /\ UNCHANGED callerVars

\* A need served by a new decoder from opener(filename), at position 0.
PickOpen ==
    /\ pc = "pick"
    /\ needed # << >>
    /\ decoders = {}
    /\ decoder' = {[pos |-> 0, at |-> 1]}
    /\ mutex' = "free"
    /\ pc' = "decode"
    /\ UNCHANGED << stream, wanted, notify, notified, shutdown, wakeup, nfail,
                    stale, decoders, keep_decoders, needed, changes, frame,
                    image >>
    /\ UNCHANGED loadVars
    /\ UNCHANGED << rec >>
    /\ UNCHANGED callerVars

\* An opener failure that leaves load.done as it is.
OpenFailRetry(dn, need) == dn

\* load.done.insert(need)
OpenFailDone(dn, need) == dn \cup CellsOf(need)

\* opener(filename) throws: the need is put into done and counted, and the
\* loop goes on to the next need with the mutex held.
PickOpenFail ==
    /\ pc = "pick"
    /\ needed # << >>
    /\ decoders = {}
    /\ nfail < MaxFailures
    /\ nfail' = nfail + 1
    /\ done' = OpenFailDone(done, Head(needed))
    /\ changes' = changes + 1
    /\ rec' = [rec EXCEPT !.done = @ \cup CellsOf(Head(needed))]
    /\ needed' = Tail(needed)
    /\ UNCHANGED << stream, wanted, notify, notified, shutdown, mutex, wakeup,
                    stale, pc, decoders, keep_decoders, decoder, frame, image,
                    frames, eof >>
    /\ UNCHANGED callerVars

\* --- the decode step, with the mutex released

\* if (need.begin != decoder_pos) { seek_before(need.begin); decoder_pos =
\* need.begin; }
AfterSeek(st, d, nb) ==
    IF nb # d.pos THEN [pos |-> nb, at |-> SeekBefore(st, nb)] ELSE d

\* decoder_pos = std::max(decoder_pos, frame->time.end), the frame consumed.
AfterFrame(d, f) ==
    [pos |-> IF f.end > d.pos THEN f.end ELSE d.pos, at |-> d.at + 1]

\* seek_before throws: decoder_pos keeps its value, no frame. The decoder is
\* taken to fail before it moves.
DecodeSeekFail ==
    /\ pc = "decode"
    /\ nfail < MaxFailures
    /\ \E d \in decoder : Head(needed).begin # d.pos
    /\ nfail' = nfail + 1
    /\ frame' = {}
    /\ image' = FALSE
    /\ pc' = "relock"
    /\ UNCHANGED << stream, wanted, notify, notified, shutdown, mutex, wakeup,
                    stale, decoders, keep_decoders, needed, changes, decoder >>
    /\ UNCHANGED loadVars
    /\ UNCHANGED << rec >>
    /\ UNCHANGED callerVars

\* next_frame throws: no frame.
DecodeNextFail ==
    /\ pc = "decode"
    /\ nfail < MaxFailures
    /\ nfail' = nfail + 1
    /\ decoder' = {AfterSeek(stream, d, Head(needed).begin) : d \in decoder}
    /\ frame' = {}
    /\ image' = FALSE
    /\ pc' = "relock"
    /\ UNCHANGED << stream, wanted, notify, notified, shutdown, mutex, wakeup,
                    stale, decoders, keep_decoders, needed, changes >>
    /\ UNCHANGED loadVars
    /\ UNCHANGED << rec >>
    /\ UNCHANGED callerVars

\* next_frame returns no frame: the end of the stream.
DecodeEof ==
    /\ pc = "decode"
    /\ \E d \in decoder :
          LET d1 == AfterSeek(stream, d, Head(needed).begin)
          IN  /\ d1.at > Len(stream)
              /\ decoder' = {d1}
    /\ frame' = {}
    /\ image' = FALSE
    /\ pc' = "relock"
    /\ UNCHANGED << stream, wanted, notify, notified, shutdown, mutex, wakeup,
                    nfail, stale, decoders, keep_decoders, needed, changes >>
    /\ UNCHANGED loadVars
    /\ UNCHANGED << rec >>
    /\ UNCHANGED callerVars

\* next_frame returns a frame and load_image throws: frame is set, image is
\* empty, and decoder_pos is not advanced.
DecodeLoadFail ==
    /\ pc = "decode"
    /\ nfail < MaxFailures
    /\ nfail' = nfail + 1
    /\ \E d \in decoder :
          LET d1 == AfterSeek(stream, d, Head(needed).begin)
          IN  /\ d1.at <= Len(stream)
              /\ decoder' = {[pos |-> d1.pos, at |-> d1.at + 1]}
              /\ frame' = {stream[d1.at]}
    /\ image' = FALSE
    /\ pc' = "relock"
    /\ UNCHANGED << stream, wanted, notify, notified, shutdown, mutex, wakeup,
                    stale, decoders, keep_decoders, needed, changes >>
    /\ UNCHANGED loadVars
    /\ UNCHANGED << rec >>
    /\ UNCHANGED callerVars

\* next_frame returns a frame and load_image uploads it.
DecodeFrame ==
    /\ pc = "decode"
    /\ \E d \in decoder :
          LET d1 == AfterSeek(stream, d, Head(needed).begin)
          IN  /\ d1.at <= Len(stream)
              /\ decoder' = {AfterFrame(d1, stream[d1.at])}
              /\ frame' = {stream[d1.at]}
    /\ image' = TRUE
    /\ pc' = "relock"
    /\ UNCHANGED << stream, wanted, notify, notified, shutdown, mutex, wakeup,
                    nfail, stale, decoders, keep_decoders, needed, changes >>
    /\ UNCHANGED loadVars
    /\ UNCHANGED << rec >>
    /\ UNCHANGED callerVars

\* --- lock.lock() after the decode step, and the check against wanted

\* An EOF branch that takes every EOF as news.
EofAlwaysNew(e, nb) == TRUE

\* Whether an EOF found at need.begin is news: !load.eof || need.begin < *load.eof
EofIsNew(e, nb) == e = {} \/ \A t \in e : nb < t

\* overlap == wanted.overlap_end(frame->time.end), overlap being
\* wanted.overlap_begin(need.begin).
IsObsolete(w, nb, fe) == OverlapBegin(w, nb) = OverlapEnd(w, fe)

\* An obsolete branch that marks the dropped frame's range as done.
ObsoleteMarksDone(dn, f) == dn \cup (f.begin .. (f.end - 1))

\* The obsolete branch only logs: load.done stays as it is.
ObsoleteDone(dn, f) == dn

\* *overlap: the wanted interval overlap_begin(need.begin) points at.
Overlap(w, nb) == IntervalSeq(w)[OverlapBegin(w, nb)]

\* overlap->begin > frame->time.begin
IsPartial(w, nb, fb) == Overlap(w, nb).begin > fb

\* A partial branch that puts the frame's whole range into done.
PartialWholeFrame(w, nb, f) == f.begin .. (f.end - 1)

\* load.done.insert({overlap->begin, frame->time.end})
PartialDone(w, nb, f) == Overlap(w, nb).begin .. (f.end - 1)

\* load.done.insert(frame->time)
FrameDone(f) == CellsOf(f)

\* A wanted branch that puts the frame's range into done and drops the image.
StoreFrameDropped(fr, f, img) == fr

\* load.frames[frame->time.begin] = std::move(image)
StoreFrame(fr, f, img) ==
    [k \in DOMAIN fr \cup {f.begin} |->
        IF k = f.begin THEN (IF img THEN "img" ELSE "null") ELSE fr[k]]

\* What every branch shares: the mutex is taken, the decoder goes back into
\* keep_decoders under decoder_pos, and the loop moves to the next need.
Relocked ==
    /\ pc = "relock"
    /\ mutex = "free"
    /\ mutex' = "worker"
    /\ \E d \in decoder : keep_decoders' = InsertDecoder(keep_decoders, d)
    /\ needed' = Tail(needed)
    /\ decoder' = {}
    /\ frame' = {}
    /\ image' = FALSE
    /\ pc' = "pick"
    /\ UNCHANGED << stream, notify, notified, shutdown, wakeup, nfail, stale,
                    decoders >>
    /\ UNCHANGED callerVars

\* An EOF branch that leaves wanted as it is.
EofKeepWanted(w, nb) == w

\* wanted.erase({*load.eof, forever})
EofTrim(w, nb) == EraseFrom(w, nb)

\* No frame, and the EOF is new: eof = need.begin, wanted is cut there.
RelockEofNew ==
    /\ Relocked
    /\ frame = {}
    /\ EofIsNew(eof, Head(needed).begin)
    /\ eof' = {Head(needed).begin}
    /\ wanted' = EofTrim(wanted, Head(needed).begin)
    /\ changes' = changes + 1
    /\ rec' = [rec EXCEPT !.eof = {Head(needed).begin}]
    /\ UNCHANGED << done, frames >>

\* No frame, at or after the known EOF: only logged.
RelockEofKnown ==
    /\ Relocked
    /\ frame = {}
    /\ ~EofIsNew(eof, Head(needed).begin)
    /\ UNCHANGED << wanted, changes, done, frames, eof, rec >>

\* A frame no wanted interval overlaps any more: dropped.
RelockObsolete ==
    /\ Relocked
    /\ \E f \in frame :
          /\ IsObsolete(wanted, Head(needed).begin, f.end)
          /\ done' = ObsoleteDone(done, f)
    /\ UNCHANGED << wanted, changes, frames, eof, rec >>

\* A frame that begins before the wanted interval does: done only.
RelockPartial ==
    /\ Relocked
    /\ \E f \in frame :
          /\ ~IsObsolete(wanted, Head(needed).begin, f.end)
          /\ IsPartial(wanted, Head(needed).begin, f.begin)
          /\ done' = done \cup PartialDone(wanted, Head(needed).begin, f)
          /\ rec' = [rec EXCEPT
                        !.done = @ \cup PartialDone(wanted, Head(needed).begin, f)]
    /\ changes' = changes + 1
    /\ UNCHANGED << wanted, frames, eof >>

\* A wanted frame: done and stored.
RelockWanted ==
    /\ Relocked
    /\ \E f \in frame :
          /\ ~IsObsolete(wanted, Head(needed).begin, f.end)
          /\ ~IsPartial(wanted, Head(needed).begin, f.begin)
          /\ done' = done \cup FrameDone(f)
          /\ frames' = StoreFrame(frames, f, image)
          /\ rec' = [rec EXCEPT !.done = @ \cup FrameDone(f),
                                !.frames = @ \cup {f.begin}]
    /\ changes' = changes + 1
    /\ UNCHANGED << wanted, eof >>

\* A pass end that sets the stored notify signal whatever the pass did.
NotifyAlways(ch, nt, sig) == IF nt THEN TRUE ELSE sig

\* if (changes && notify) notify->set()
NotifyAfterPass(ch, nt, sig) == IF ch > 0 /\ nt THEN TRUE ELSE sig

\* The end of a pass: the pool becomes keep_decoders, notify is set on changes.
PassEnd ==
    /\ pc = "pick"
    /\ needed = << >>
    /\ decoders' = keep_decoders
    /\ keep_decoders' = {}
    /\ notified' = NotifyAfterPass(changes, notify, notified)
    /\ changes' = 0
    /\ rec' = NoRec
    /\ pc' = "loop"
    /\ UNCHANGED << stream, wanted, notify, shutdown, mutex, wakeup, nfail,
                    stale, needed, decoder, frame, image >>
    /\ UNCHANGED loadVars
    /\ UNCHANGED callerVars

\* ------------------------------------------------------------ specification

Worker ==
    \/ WorkerLock
    \/ WorkerExit
    \/ PassPark
    \/ PassStart
    \/ WorkerWait
    \/ PickReuse
    \/ PickOpen
    \/ PickOpenFail
    \/ DecodeSeekFail
    \/ DecodeNextFail
    \/ DecodeEof
    \/ DecodeLoadFail
    \/ DecodeFrame
    \/ RelockEofNew
    \/ RelockEofKnown
    \/ RelockObsolete
    \/ RelockPartial
    \/ RelockWanted
    \/ PassEnd

Caller ==
    \/ \E w \in SUBSET Cells, n \in BOOLEAN : SetRequest(w, n)
    \/ SetRequestWake
    \/ NotifyWait
    \/ Destroy
    \/ DestroyWake
    \/ DestroyJoin

Next == Worker \/ Caller

Spec == Init /\ [][Next]_vars

\* The threads are scheduled fairly: the worker keeps running when it can,
\* and a call that has released the mutex goes on to set the wakeup signal.
Fairness ==
    /\ WF_vars(Worker)
    /\ WF_vars(SetRequestWake)
    /\ WF_vars(DestroyWake)
    /\ WF_vars(DestroyJoin)

\* The whole loader under fair scheduling, with fewer set_request calls.
CallerLive ==
    \/ \E w \in SUBSET Cells, n \in BOOLEAN :
          nreq < MaxLiveRequests /\ SetRequest(w, n)
    \/ SetRequestWake
    \/ NotifyWait
    \/ Destroy
    \/ DestroyWake
    \/ DestroyJoin

NextLive == Worker \/ CallerLive

FairSpec == Init /\ [][NextLive]_vars /\ Fairness

\* The loader with a decoder, an opener and a display driver that never
\* fail, and no shutdown, under fair scheduling.
WorkerNoFail ==
    \/ WorkerLock
    \/ PassPark
    \/ PassStart
    \/ WorkerWait
    \/ PickReuse
    \/ PickOpen
    \/ DecodeEof
    \/ DecodeFrame
    \/ RelockEofNew
    \/ RelockObsolete
    \/ RelockPartial
    \/ RelockWanted
    \/ PassEnd

CallerNoDestroy ==
    \/ \E w \in SUBSET Cells, n \in BOOLEAN :
          nreq < MaxLiveRequests /\ SetRequest(w, n)
    \/ SetRequestWake
    \/ NotifyWait

NextProgress == WorkerNoFail \/ CallerNoDestroy

ProgressSpec ==
    /\ Init
    /\ [][NextProgress]_vars
    /\ WF_vars(WorkerNoFail)
    /\ WF_vars(SetRequestWake)

TypeOK ==
    /\ stream \in Streams
    /\ wanted \subseteq Cells
    /\ done \subseteq 0 .. MaxTime
    /\ DOMAIN frames \subseteq 0 .. MaxTime
    /\ Cardinality(eof) <= 1
    /\ mutex \in {"free", "worker"}
    /\ pc \in {"lock", "loop", "wait", "pick", "decode", "relock", "exit"}
    /\ cpc \in {"idle", "wake", "dwake", "join", "dead"}
    /\ (mutex = "worker") = (pc \in {"loop", "pick"})
    /\ Cardinality(decoder) = (IF pc \in {"decode", "relock"} THEN 1 ELSE 0)

\* ------------------------------------------------------------------ claims

\* The cells at or after a known eof.
PastEof == {c \in 0 .. MaxTime : \E t \in eof : c >= t}

\* The latest set_request call has returned.
Returned == nreq > 0 /\ cpc # "wake"

\* C1: once set_request(w) has returned, no loaded() snapshot (a state with
\* the mutex free) taken before the next set_request holds a frame whose key
\* lies outside w.
C1_NoFrameOutsideRequest ==
    (Returned /\ mutex = "free") => DOMAIN frames \subseteq req

\* C2: when the worker takes the mutex back with a decoded frame and no cell
\* of the current wanted lies in [need.begin, frame.time.end), that step
\* leaves frames, done and eof unchanged and counts no change, so the region
\* is not in done and can be needed again.
C2_ObsoleteFrameDiscarded ==
    [][(/\ pc = "relock"
        /\ pc' = "pick"
        /\ \E f \in frame :
              wanted \cap (Head(needed).begin .. (f.end - 1)) = {})
       => UNCHANGED << frames, done, eof, changes >>]_vars

\* A pass has ended in which every need was served by a decoder and nothing
\* was counted, with no eof known: its frames were dropped as obsolete.
C2_Witness ==
    /\ pc = "pick"
    /\ needed = << >>
    /\ changes = 0
    /\ keep_decoders # {}
    /\ eof = {}
    /\ nreq >= 2

\* C3: whenever the loader mutex is free, every key of frames lies inside
\* done.
C3_FramesInsideDone ==
    mutex = "free" => DOMAIN frames \subseteq done

\* A snapshot with a frame, after a second set_request, a failure and an EOF
\* discovery, in which done holds more than the frames' keys.
C3_Witness ==
    /\ mutex = "free"
    /\ DOMAIN frames # {}
    /\ nreq >= 2
    /\ nfail >= 1
    /\ eof # {}
    /\ done # DOMAIN frames

C5_DoneInsideRequest ==
    (Returned /\ cpc = "idle" /\ ~stale /\ pc \in {"loop", "wait", "lock"})
        => done \subseteq (req \cup PastEof)

\* C6: whenever eof is known, frames holds no key at or after it.
C6_NoFrameAtOrAfterEof ==
    \A t \in eof : \A k \in DOMAIN frames : k < t

\* C7: whenever eof is known, done lies inside [0, eof).
C7_DoneBelowEof ==
    \A t \in eof : \A c \in done : c < t

\* C8: with a decoder, an opener and a driver that never fail, no shutdown
\* and finitely many set_request calls, the worker ends up parked on the
\* wakeup signal for good, with nothing needed.
C8_Progress ==
    <>[](pc = "wait" /\ NeededSet(wanted, eof, done) = {})

\* C9: whenever set_request changes wanted, the worker later begins a pass
\* (and computes needed from that wanted or a later one), unless the loader
\* is shut down.
C9_NoLostWakeup ==
    stale ~> (~stale \/ shutdown)

\* A set_request has changed wanted while the worker is between releasing the
\* mutex and returning from wait(), and the wakeup signal is not set yet.
C9_Witness ==
    /\ stale
    /\ pc = "wait"
    /\ cpc = "wake"
    /\ ~wakeup
    /\ ~shutdown

\* C10: a set_request(w) that follows a set_request(w) with the same w is a
\* no-op: it does not go on to set the wakeup signal and changes neither
\* frames nor done.
C10_SecondCallNoOp ==
    [][(nreq' = nreq + 1 /\ nreq > 0 /\ req' = req)
       => (cpc' = "idle" /\ UNCHANGED << frames, done, wakeup >>)]_vars

\* The worker ends a pass: the step from the need loop back to while.
EndsPass == pc = "pick" /\ pc' = "loop"

\* C11: with a notify signal stored and not yet set, the end of a pass sets
\* it if and only if the pass wrote a frame, a done region or an eof; a pass
\* that only dropped obsolete frames leaves it unset, and so does a pass that
\* finds nothing needed and parks.
C11_NotifyIffChange ==
    [][/\ (EndsPass /\ notify /\ ~notified) => (notified' <=> rec # NoRec)
       /\ (pc = "loop" /\ pc' = "wait") => notified' = notified]_vars

\* A pass that found the end of the stream and wrote nothing else has ended
\* and has set the notify signal.
C11_Witness ==
    /\ pc = "loop"
    /\ notified
    /\ notify
    /\ eof # {}
    /\ done = {}
    /\ nfail = 0
    /\ nreq = 1

\* C12 as stated: when a pass ends and sets notify, the cache holds every
\* frame key, done cell and eof the pass wrote, whatever set_request calls
\* ran while the pass had the mutex released.
C12_LoadedSeesPass ==
    [][(EndsPass /\ notify /\ changes > 0)
       => (/\ rec.frames \subseteq DOMAIN frames'
           /\ rec.done \subseteq done'
           /\ rec.eof \subseteq eof')]_vars

\* C12 as amended: the same, for a pass during which no set_request changed
\* the request; the eof a pass wrote is in the cache in every case.
C12_LoadedSeesQuietPass ==
    [][(EndsPass /\ notify /\ changes > 0)
       => (/\ ~stale => rec.frames \subseteq DOMAIN frames'
           /\ ~stale => rec.done \subseteq done'
           /\ rec.eof \subseteq eof')]_vars

\* A pass that stored a frame is about to end and set notify, after a second
\* set_request that left the request as it was.
C12_Witness ==
    /\ pc = "pick"
    /\ needed = << >>
    /\ rec.frames # {}
    /\ notify
    /\ ~stale
    /\ nreq >= 2

\* C13: once the destructor has set shutdown, the worker leaves its loop and
\* the join returns, wherever the worker was: parked on the wakeup signal,
\* waiting for the mutex or inside a decode step.
C13_ShutdownTerminates ==
    shutdown ~> (pc = "exit" /\ cpc = "dead")

\* The destructor has set shutdown and not yet the wakeup signal, and the
\* worker is parked on the signal.
C13_Witness ==
    /\ shutdown
    /\ cpc = "dwake"
    /\ pc = "wait"
    /\ ~wakeup

\* The worker calls the opener or starts a decode step for the next need.
StartsStep == pc = "pick" /\ (pc' = "decode" \/ nfail' # nfail)

\* C14: once shutdown is set, the worker starts no opener call and no decode
\* step any more.
C14_NoStepAfterShutdown ==
    [][shutdown => ~StartsStep]_vars

\* C15: the worker does not hold the mutex during a decode step, it holds it
\* in the parts of its loop that read wanted, the cache, notify and shutdown,
\* and each of its steps that writes wanted or the cache holds it.
C15_MutexDiscipline ==
    /\ [](pc \in {"decode", "relock"} => mutex = "free")
    /\ [](pc \in {"loop", "pick"} => mutex = "worker")
    /\ [][(UNCHANGED callerVars /\ << wanted, done, frames, eof >>' #
                                   << wanted, done, frames, eof >>)
          => mutex' = "worker"]_vars

\* A decode step is in progress and a set_request that changed the request
\* during this pass has just released the mutex.
C15_Witness ==
    /\ pc = "decode"
    /\ mutex = "free"
    /\ stale
    /\ cpc = "wake"

\* The opener throws: the worker stays in the need loop and a failure is
\* counted.
OpenerFails == pc = "pick" /\ pc' = "pick" /\ nfail' = nfail + 1

\* C16: an opener failure puts the whole need into done, counts a change and
\* stores no frame; the needs of a pass lie outside done when the pass
\* starts, and done loses cells only in a set_request that changes the
\* request: so the region is not needed, and the opener not called for it, in
\* later passes until the request changes.
C16_OpenerFailureMarksDone ==
    [][/\ OpenerFails =>
             /\ CellsOf(Head(needed)) \subseteq done'
             /\ changes' = changes + 1
             /\ frames' = frames
             /\ needed' = Tail(needed)
       /\ (pc = "loop" /\ pc' = "pick") =>
             \A i \in 1 .. Len(needed') : CellsOf(needed'[i]) \cap done = {}
       /\ (done \ done' # {}) => (nreq' = nreq + 1 /\ wanted' # wanted)]_vars

\* The opener has failed, and a later pass has found nothing needed and
\* parked: done is the request, with no frame and no eof.
C16_Witness ==
    /\ pc = "wait"
    /\ nfail = 1
    /\ wanted # {}
    /\ done = wanted
    /\ frames = << >>
    /\ eof = {}
    /\ ~stale

\* C17: frames never holds an entry with an empty image handle (a failed
\* load_image stores nothing).
C17_NoEmptyImage ==
    \A k \in DOMAIN frames : frames[k] # "null"

\* C18: a set_request(big) that follows a set_request(small) with big a
\* superset of small removes nothing from frames and done.
C18_WidenRemovesNothing ==
    [][(nreq > 0 /\ nreq' = nreq + 1 /\ req \subseteq req')
       => (done' = done /\ frames' = frames)]_vars

\* C19: no set_request changes eof; a set_request that shrinks a non-empty
\* wanted to the empty set leaves frames and done empty; and eof, once set,
\* is never cleared and never increases.
C19_EofPreserved ==
    [][/\ nreq' = nreq + 1 => eof' = eof
       /\ (nreq' = nreq + 1 /\ wanted # {} /\ req' = {}) =>
             (done' = {} /\ frames' = << >> /\ wanted' = {})
       /\ \A t \in eof : eof' # {} /\ \A u \in eof' : u <= t]_vars

\* A set_request has just emptied a request that had a frame loaded and an
\* eof known: the cache is empty and eof is still there.
C19_Witness ==
    /\ cpc = "wake"
    /\ req = {}
    /\ wanted = {}
    /\ eof # {}
    /\ done = {}
    /\ frames = << >>
    /\ \E d \in decoders : d.pos > 0

\* C20: the worker starts an opener call or a decode step only for a need
\* that the current wanted still intersects.
C20_NoStepForUnwanted ==
    [][StartsStep => CellsOf(Head(needed)) \cap wanted # {}]_vars

\* The worker takes the mutex back after a decode step.
Relocks == pc = "relock" /\ pc' = "pick"

\* C21: when the worker takes the mutex back with no frame and eof is unset
\* or above need.begin, that one step sets eof to need.begin, removes the
\* cells from need.begin on from wanted and counts a change; with need.begin
\* at or after the known eof it changes neither eof, wanted, frames nor done.
C21_EofDiscovery ==
    [][(Relocks /\ frame = {}) =>
          LET nb == Head(needed).begin
          IN  IF eof = {} \/ \E t \in eof : nb < t
              THEN /\ eof' = {nb}
                   /\ wanted' = {c \in wanted : c < nb}
                   /\ changes' = changes + 1
                   /\ mutex' = "worker"
              ELSE UNCHANGED << eof, wanted, frames, done, changes >>]_vars

\* A failed decode step has been taken as the end of the stream: eof is set
\* in this pass and the request has lost its cells from there on.
C21_Witness ==
    /\ pc = "pick"
    /\ nfail = 1
    /\ rec.eof # {}
    /\ rec.eof = eof
    /\ wanted # req
    /\ ~stale

\* Where the first wanted interval that reaches past t begins: the start of
\* the run of wanted cells that holds the first wanted cell at or after t.
FirstPastBegin(w, t) ==
    LET c0 == Min({c \in w : c >= t})
    IN  Min({b \in 0 .. c0 : \A c \in b .. c0 : c \in w})

\* C22: when the worker takes the mutex back with a frame and wanted has a
\* cell in [need.begin, frame.end): if the first wanted interval that reaches
\* past need.begin begins after frame.begin, the step adds exactly
\* [that begin, frame.end) to done, counts a change and leaves frames alone;
\* otherwise it adds the frame's range to done, counts a change and stores
\* an entry under frame.begin, leaving the other entries alone.
C22_PartialOrWanted ==
    [][\A f \in frame :
          LET nb == Head(needed).begin
          IN  (Relocks /\ wanted \cap (nb .. (f.end - 1)) # {}) =>
                 LET ob == FirstPastBegin(wanted, nb)
                 IN  /\ changes' = changes + 1
                     /\ IF ob > f.begin
                        THEN /\ done' = done \cup (ob .. (f.end - 1))
                             /\ frames' = frames
                        ELSE /\ done' = done \cup (f.begin .. (f.end - 1))
                             /\ DOMAIN frames' = DOMAIN frames \cup {f.begin}
                             /\ \A k \in DOMAIN frames \ {f.begin} :
                                   frames'[k] = frames[k]]_vars

\* A frame that begins before the requested interval has been read: the
\* pass wrote the cell [1,2) of the frame [0,2) to done and stored nothing.
C22_Witness ==
    /\ pc = "pick"
    /\ stream = StreamA
    /\ nfail = 0
    /\ rec.done = {1}
    /\ rec.frames = {}
    /\ done = {1}
    /\ frames = << >>

\* C23: when the worker takes the mutex back with a frame that begins after
\* need.end, the step adds no entry to frames and leaves done as it is.
C23_SkippedFrameDiscarded ==
    [][(Relocks /\ \E f \in frame : f.begin > Head(needed).end)
       => UNCHANGED << frames, done >>]_vars

\* The decoders of a pool that sit where one of the given needs begins.
AtNeedBegin(decs, needs) ==
    {d \in decs : \E i \in 1 .. Len(needs) : needs[i].begin = d.pos}

\* C24 as stated: a pooled decoder that sits where a later need of the pass
\* begins is still in the pool after any earlier need has picked its decoder.
C24_BoundaryDecoderKept ==
    [][StartsStep => AtNeedBegin(decoders, Tail(needed)) \subseteq decoders']_vars

\* C24 as amended: the head of a pass leaves in the pool every decoder that
\* sits where a need begins; a need whose begin has a decoder in the pool is
\* served by that decoder, with no opener call and no seek; and an earlier
\* need that finds a decoder at or before its begin leaves the decoders of
\* the later needs in the pool.
C24_ExtensionReusesDecoder ==
    [][/\ (pc = "loop" /\ pc' = "pick") =>
             AtNeedBegin(decoders, needed') \subseteq decoders'
       /\ StartsStep =>
             \A d \in decoders :
                d.pos = Head(needed).begin =>
                   /\ decoder' = {d}
                   /\ pc' = "decode"
                   /\ nfail' = nfail
                   /\ AfterSeek(stream, d, Head(needed).begin) = d
       /\ (StartsStep /\ \E e \in decoders : e.pos <= Head(needed).begin) =>
             AtNeedBegin(decoders, Tail(needed)) \subseteq decoders']_vars

\* After a second set_request the worker serves a need that begins at 2, past
\* loaded cells, with the pooled decoder that sits at 2, and another decoder
\* is left in the pool.
C24_Witness ==
    /\ pc = "decode"
    /\ nreq >= 2
    /\ Head(needed).begin = 2
    /\ \E d \in decoder : d.pos = 2 /\ d.at > 1
    /\ decoders # {}

\* p is the end of an interval of w.
IsEnd(w, p) == (p - 1) \in w /\ p \notin w

\* C25: when the worker parks, the pool becomes exactly its decoders that sit
\* at the end of an interval of wanted (none when wanted is empty); a pass
\* that does work starts its next pool from exactly those decoders, adds to
\* it only the decoder each step used, and ends with that pool.
C25_PoolAtPark ==
    [][/\ (pc = "loop" /\ pc' = "wait") =>
             decoders' = {d \in decoders : IsEnd(wanted, d.pos)}
       /\ (pc = "loop" /\ pc' = "pick") =>
             keep_decoders' = {d \in decoders : IsEnd(wanted, d.pos)}
       /\ Relocks => keep_decoders' \subseteq keep_decoders \cup decoder
       /\ OpenerFails => keep_decoders' = keep_decoders
       /\ EndsPass => decoders' = keep_decoders]_vars

\* The worker is parked with one decoder, kept at the end of a wanted
\* interval below the known eof.
C25_Witness ==
    /\ pc = "wait"
    /\ wanted # {}
    /\ ~stale
    /\ cpc = "idle"
    /\ Cardinality(decoders) = 1
    /\ eof # {}
    /\ \A d \in decoders : IsEnd(wanted, d.pos) /\ \A t \in eof : d.pos < t

\* C26: a need takes, from a non-empty pool, the decoder with the largest
\* position at or before need.begin, else the one with the smallest
\* position, and the opener is not called; with an empty pool the opener is
\* called and a new decoder starts at position 0. The decoder taken leaves
\* the pool, and does not come back to it while the pass goes on.
C26_NearestAtOrBefore ==
    [][/\ StartsStep =>
             LET nb == Head(needed).begin
                 before == {d \in decoders : d.pos <= nb}
             IN  IF decoders = {}
                 THEN /\ decoders' = {}
                      /\ OpenerFails \/ decoder' = {[pos |-> 0, at |-> 1]}
                 ELSE /\ nfail' = nfail
                      /\ \E d \in decoders :
                            /\ decoder' = {d}
                            /\ decoders' = decoders \ {d}
                            /\ IF before # {}
                               THEN d \in before /\ \A e \in before : e.pos <= d.pos
                               ELSE \A e \in decoders : d.pos <= e.pos
       /\ Relocks => decoders' = decoders]_vars

\* A need is being served by the nearest decoder at or before its begin while
\* a decoder further back stays in the pool.
C26_Witness ==
    /\ pc = "decode"
    /\ \E d \in decoder, e \in decoders :
          e.pos < d.pos /\ d.pos <= Head(needed).begin

\* The decoder will continue from where its key says: its next frame is the
\* first one that ends after the key.
Keyed(d) == d.at = SeekBefore(stream, d.pos)

\* C27: every decoder of the pool, of the pool being built and in use
\* between steps is keyed by its true position.
C27_KeyIsTruePosition ==
    pc # "decode" => \A d \in decoders \cup keep_decoders \cup decoder : Keyed(d)

====
